---- MODULE Spec2Model ----
(***************************************************************************)
(* A model of rest_framework_swagger/docgenerator.py: the class            *)
(* DocumentationGenerator, its class-level registries and the three        *)
(* public operations generate, get_operations and get_models.              *)
(*                                                                         *)
(* Python strings that the code builds by concatenation or replace() are   *)
(* sequences of tokens (a class name "UserViewSet" is <<"User", "View",    *)
(* "Set">>), so that two different inputs can produce the same key.        *)
(* An optional value is a sequence of length at most one (None is <<>>).   *)
(***************************************************************************)
EXTENDS Integers, Sequences, FiniteSets, TLC

VARIABLES
    item_nested,              \* the nested field declared on Item, if any
    tag_nested,               \* the nested field declared on Tag, if any
    hash_order,               \* iteration order of a set of serializers
    explicit_serializers,     \* DocumentationGenerator.explicit_serializers
    fields_serializers,       \* DocumentationGenerator.fields_serializers
    explicit_response_types,  \* DocumentationGenerator.explicit_response_types
    last_call,                \* the call that returned last, with its arguments
    operations,               \* what the last get_operations returned
    api_docs,                 \* what the last generate returned
    models,                   \* what the last get_models returned
    raised,                   \* the exception the last call ended with
    processed,                \* history: the methods _get_method_response_type saw
    registered_by             \* history: key -> the method that registered it last

vars == <<item_nested, tag_nested, hash_order, explicit_serializers, fields_serializers,
          explicit_response_types, last_call, operations, api_docs, models,
          raised, processed, registered_by>>

\* Bounds of the model.
RecursionLimit == 4
MaxApis == 2

None == <<>>
Some(x) == <<x>>

(***************************************************************************)
(* The serializer classes of the application.                              *)
(***************************************************************************)
SerializerClasses == {"Order", "Item", "Tag", "WriteItem", "UserGetResponse"}

\* serializer.__name__
ClassName(c) ==
    CASE c = "Order" -> <<"Order">>
      [] c = "Item" -> <<"Item">>
      [] c = "Tag" -> <<"Tag">>
      [] c = "WriteItem" -> <<"Write", "Item">>
      [] c = "UserGetResponse" -> <<"User", "Get", "Response">>

\* A field object as the code reads it with getattr.
Field(name, data_type, ro, wo, req, help, minv, maxv, choices) ==
    [name |-> name, kind |-> "field", target |-> "", data_type |-> data_type,
     read_only |-> ro, write_only |-> wo, required |-> req, help_text |-> help,
     default |-> None, min_val |-> minv, max_val |-> maxv, choices |-> choices]

\* A nested serializer field; many = TRUE is the list-wrapped form.
NestedField(name, target, many, ro, wo, req) ==
    [name |-> name, kind |-> IF many THEN "list" ELSE "serializer",
     target |-> target, data_type |-> "field",
     read_only |-> ro, write_only |-> wo, required |-> req, help_text |-> "",
     default |-> None, min_val |-> None, max_val |-> None, choices |-> None]

\* isinstance(field, BaseSerializer)
IsBaseSerializer(field) == field.kind \in {"serializer", "list"}

\* isinstance(field, ListSerializer), or field.many before version 3
IsListSerializer(field) == field.kind = "list"

\* IntrospectorHelper.get_serializer_name: the class name, of the child for a list
get_serializer_name(serializer) ==
    IF serializer = None THEN None ELSE Some(ClassName(serializer[1]))

\* get_data_type(field)
get_data_type(field) == field.data_type

\* get_default_value(field)
get_default_value(field) == field.default

\* BaseMethodIntrospector.PRIMITIVES: data type -> formats
PRIMITIVES ==
    [t \in {"integer", "number", "string", "boolean"} |->
        CASE t = "integer" -> <<"int32", "int64">>
          [] t = "number" -> <<"float", "double">>
          [] t = "string" -> <<"string", "byte", "date", "date-time">>
          [] t = "boolean" -> <<"boolean">>]

\* str.strip() on the help texts of the model
Strip(s) == IF s = "  " THEN "" ELSE s

(***************************************************************************)
(* The application's serializers: the fields every world has, and the      *)
(* nested fields a world may add to Item and to Tag.                       *)
(***************************************************************************)
BaseFields ==
    [c \in SerializerClasses |->
    CASE c = "Order" ->
           << Field("id", "integer", TRUE, FALSE, FALSE, "Primary key", Some(1), None, None),
              NestedField("items", "Item", TRUE, FALSE, FALSE, TRUE),
              Field("note", "string", FALSE, TRUE, TRUE, "  ", None, None, None) >>
      [] c = "Item" ->
           << Field("sku", "string", FALSE, FALSE, TRUE, "", None, None, None),
              Field("qty", "integer", FALSE, FALSE, FALSE, "Quantity", Some(0), Some(9), None),
              Field("secret", "string", FALSE, TRUE, FALSE, "", None, None, None),
              Field("created", "string", TRUE, FALSE, TRUE, "", None, None, None) >>
      [] c = "Tag" ->
           << Field("label", "multiple choice", FALSE, FALSE, TRUE, "", None, None,
                    Some(<< <<"a", "A">>, <<"b", "B">> >>)),
              Field("rank", "integer", TRUE, TRUE, FALSE, "", None, Some(5), None) >>
      [] c = "WriteItem" ->
           << Field("sku", "string", FALSE, FALSE, TRUE, "", None, None, None),
              Field("weight", "number", FALSE, FALSE, FALSE, "", Some(0), Some(9), None) >>
      [] c = "UserGetResponse" ->
           << Field("token", "string", TRUE, FALSE, FALSE, "", None, None, None),
              Field("age", "integer", FALSE, FALSE, FALSE, "", None, None, None) >>]

ItemNestedChoices ==
    {None} \cup { Some(NestedField("child", "Tag", many, FALSE, wo, many)) :
                    many \in BOOLEAN, wo \in BOOLEAN }
           \cup { Some(NestedField("child", "Item", many, FALSE, FALSE, FALSE)) :
                    many \in BOOLEAN }

TagNestedChoices ==
    { None,
      Some(NestedField("ref", "UserGetResponse", FALSE, TRUE, FALSE, FALSE)),
      Some(NestedField("ref", "Item", TRUE, FALSE, TRUE, FALSE)) }

\* serializer().get_fields(): the fields of the class, in declaration order
get_fields(c) ==
    BaseFields[c] \o (IF c = "Item" THEN item_nested
                      ELSE IF c = "Tag" THEN tag_nested ELSE <<>>)

(***************************************************************************)
(* _get_serializer_fields                                                  *)
(***************************************************************************)
\* lines 303-304: the 'minimum' key
MinimumKey(field, data_type) ==
    IF field.max_val # None /\ data_type = "integer"
    THEN [minimum |-> field.min_val] ELSE <<>>

\* lines 306-307: the 'maximum' key
MaximumKey(field, data_type) ==
    IF field.max_val # None /\ data_type = "integer"
    THEN [maximum |-> field.max_val] ELSE <<>>

\* lines 310-312: the 'enum' key
EnumKey(field) ==
    IF get_data_type(field) = "multiple choice" /\ field.choices # None
    THEN [enum |-> [i \in 1..Len(field.choices[1]) |-> field.choices[1][i][1]]]
    ELSE <<>>

\* lines 316-319: the model a nested field refers to
FieldSerializerName(field) ==
    IF field.write_only
    THEN <<"Write">> \o get_serializer_name(Some(field.target))[1]
    ELSE get_serializer_name(Some(field.target))[1]

\* lines 315-332: 'type' and 'items' of a nested serializer field
ComplexKeys(field, data_type) ==
    IF ~IsBaseSerializer(field) THEN <<>>
    ELSE IF IsListSerializer(field)
         THEN [type |-> <<"array">>,
               items |-> IF data_type \in DOMAIN PRIMITIVES
                         THEN [type |-> <<data_type>>]
                         ELSE [ref |-> FieldSerializerName(field)]]
         ELSE [type |-> FieldSerializerName(field)]

\* lines 281-332: the schema f of one field
FieldSchema(field) ==
    LET data_type == get_data_type(field)
        data_format == IF data_type \in DOMAIN PRIMITIVES
                       THEN PRIMITIVES[data_type][1] ELSE "string"
        description == IF field.help_text = "" \/ Strip(field.help_text) = ""
                       THEN None ELSE Some(field.help_text)
        f == [description |-> description,
              type |-> <<data_type>>,
              format |-> data_format,
              required |-> field.required,
              defaultValue |-> get_default_value(field),
              readOnly |-> field.read_only]
    IN ComplexKeys(field, data_type) @@ EnumKey(field)
         @@ MaximumKey(field, data_type) @@ MinimumKey(field, data_type) @@ f

\* the names of the fields that satisfy a flag, in field order
RECURSIVE NamesWhere(_, _)
NamesWhere(fields, flag) ==
    IF fields = <<>> THEN <<>>
    ELSE (IF Head(fields)[flag] THEN <<Head(fields).name>> ELSE <<>>)
           \o NamesWhere(Tail(fields), flag)

\* lines 253-337
get_serializer_fields(c) ==
    LET fields == get_fields(c)
    IN [fields |-> [i \in 1..Len(fields) |-> <<fields[i].name, FieldSchema(fields[i])>>],
        required |-> NamesWhere(fields, "required"),
        write_only |-> NamesWhere(fields, "write_only"),
        read_only |-> NamesWhere(fields, "read_only")]

(***************************************************************************)
(* The routed views and what their introspectors report.                   *)
(***************************************************************************)
Callbacks == {"OrderViewSet", "UserAPIView", "UserView"}

\* callback.__name__
CallbackName(cb) ==
    CASE cb = "OrderViewSet" -> <<"Order", "View", "Set">>
      [] cb = "UserAPIView" -> <<"User", "API", "View">>
      [] cb = "UserView" -> <<"User", "View">>

\* callback.__module__
CallbackModule(cb) ==
    IF cb = "UserView" THEN "rest_framework.decorators" ELSE "app.views"

\* issubclass(callback, viewsets.ViewSetMixin)
IsViewSet(cb) == cb = "OrderViewSet"

\* The response types written in docstrings.
TypeCount == <<<<"count", [type |-> <<"integer">>]>>>>
TypeToken == <<<<"token", [type |-> <<"string">>]>>>>
TypeOk == <<<<"ok", [type |-> <<"boolean">>]>>>>

\* One element of the iteration over an introspector.
Method(cb, method, http, base, rtype, omit, ser, params, msgs, err) ==
    [callback |-> cb, method |-> method, http_method |-> http, base |-> base,
     response_type |-> rtype, omit_serializer |-> omit, serializer |-> ser,
     parameters |-> params, response_messages |-> msgs, yaml_error |-> err,
     summary |-> "summary", nickname |-> "nickname", notes |-> <<"notes">>]

\* for method_introspector in introspector
MethodIntrospectors ==
    [cb \in Callbacks |->
    CASE cb = "OrderViewSet" ->
           << Method(cb, <<"list">>, "GET", TRUE, Some(TypeCount), FALSE,
                     Some("Order"), <<"page">>, <<>>, None),
              Method(cb, <<"partial", "_", "update">>, "PATCH", TRUE, None, TRUE,
                     Some("Item"), <<>>, <<"404">>, None),
              Method(cb, <<"options">>, "OPTIONS", TRUE, None, FALSE,
                     Some("UserGetResponse"), <<"page">>, <<"404">>, None),
              Method(cb, <<"create">>, "POST", TRUE, None, FALSE,
                     Some("Order"), <<"body">>, <<"400">>, None) >>
      [] cb = "UserAPIView" ->
           << Method(cb, <<"GET">>, "GET", TRUE, Some(TypeToken), FALSE,
                     Some("Item"), <<>>, <<>>, None),
              Method(cb, <<"POST">>, "POST", TRUE, None, FALSE,
                     Some("UserGetResponse"), <<"body">>, <<"400">>, None) >>
      [] cb = "UserView" ->
           << Method(cb, <<"custom">>, "GET", FALSE, None, FALSE,
                     None, <<>>, <<>>, None),
              Method(cb, <<"GET">>, "GET", TRUE, Some(TypeOk), TRUE,
                     None, <<"q">>, <<>>, None),
              Method(cb, <<"PUT">>, "PUT", TRUE, None, FALSE,
                     Some("WriteItem"), <<>>, <<>>, Some("bad yaml")),
              Method(cb, <<"DELETE">>, "DELETE", TRUE, None, FALSE,
                     None, <<>>, <<"404">>, None) >>]

\* The registered endpoints.
Api(path, cb) == [path |-> path, pattern |-> path, callback |-> cb]
RegisteredApis ==
    << Api("/orders", "OrderViewSet"), Api("/users", "UserAPIView"),
       Api("/users/me", "UserView") >>

AllApis == { RegisteredApis[i] : i \in 1..Len(RegisteredApis) }

\* The lists of apis a caller passes: no endpoint twice, any order.
ApiLists ==
    UNION { { s \in [1..n -> AllApis] : \A i, j \in 1..n : s[i] = s[j] => i = j }
            : n \in 0..MaxApis }

\* The lists that keep the endpoints in the order of their registration.
FilteredApiLists ==
    { s \in ApiLists :
        \A i, j \in 1..Len(s) :
            i < j => \E a, b \in 1..Len(RegisteredApis) :
                        a < b /\ RegisteredApis[a] = s[i] /\ RegisteredApis[b] = s[j] }

(***************************************************************************)
(* String helpers.                                                         *)
(***************************************************************************)
\* whether pat occurs in s at position i
MatchAt(s, pat, i) ==
    /\ i + Len(pat) - 1 <= Len(s)
    /\ \A k \in 1..Len(pat) : s[i + k - 1] = pat[k]

\* s.replace(pat, ''): the occurrences of pat removed, left to right
RECURSIVE Replace(_, _)
Replace(s, pat) ==
    IF s = <<>> THEN <<>>
    ELSE IF MatchAt(s, pat, 1) THEN Replace(SubSeq(s, Len(pat) + 1, Len(s)), pat)
    ELSE <<Head(s)>> \o Replace(Tail(s), pat)

\* word.title() for the words of the method names
TitleWord(w) ==
    CASE w \in {"list", "LIST"} -> "List"
      [] w \in {"partial", "PARTIAL"} -> "Partial"
      [] w \in {"update", "UPDATE"} -> "Update"
      [] w \in {"options", "OPTIONS"} -> "Options"
      [] w \in {"create", "CREATE"} -> "Create"
      [] w \in {"custom", "CUSTOM"} -> "Custom"
      [] w \in {"get", "GET"} -> "Get"
      [] w \in {"post", "POST"} -> "Post"
      [] w \in {"put", "PUT"} -> "Put"
      [] w \in {"delete", "DELETE"} -> "Delete"
      [] OTHER -> w

\* s.title()
Title(s) == [i \in 1..Len(s) |-> TitleWord(s[i])]

(***************************************************************************)
(* get_introspector, _get_method_serializer, _get_method_response_type     *)
(***************************************************************************)
\* lines 37-49
get_introspector(api, apis) ==
    IF CallbackModule(api.callback) = "rest_framework.decorators"
    THEN [kind |-> "WrappedAPIViewIntrospector", callback |-> api.callback,
          path |-> api.path, pattern |-> api.pattern, patterns |-> <<>>]
    ELSE IF IsViewSet(api.callback)
    THEN [kind |-> "ViewSetIntrospector", callback |-> api.callback,
          path |-> api.path, pattern |-> api.pattern,
          patterns |-> SelectSeq([i \in 1..Len(apis) |-> apis[i]],
                                 LAMBDA a : a.callback = api.callback)]
    ELSE [kind |-> "APIViewIntrospector", callback |-> api.callback,
          path |-> api.path, pattern |-> api.pattern, patterns |-> <<>>]

\* _get_method_serializer without the omit_serializer check
get_method_serializer_IgnoresOmit(method_inspector) ==
    IF method_inspector.response_type # None THEN None
    ELSE method_inspector.serializer

\* lines 158-175
get_method_serializer(method_inspector) ==
    IF method_inspector.response_type # None THEN None
    ELSE IF method_inspector.omit_serializer THEN None
    ELSE method_inspector.serializer

\* lines 190-197: the key of a docstring response type
ResponseTypeName(view_inspector, method_inspector) ==
    LET view_name == Replace(Replace(Replace(CallbackName(view_inspector.callback),
                                             <<"View", "Set">>),
                                     <<"API", "View">>),
                             <<"View">>)
    IN view_name \o Replace(Title(method_inspector.method), <<"_">>) \o <<"Response">>

\* a registration that rebinds the registry to the new entry alone
RegisterResponseType_Rebinds(registry, name, response_type) ==
    (name :> [id |-> name, properties |-> response_type])

\* lines 198-203: explicit_response_types.update({name: {...}})
RegisterResponseType(registry, name, response_type) ==
    (name :> [id |-> name, properties |-> response_type]) @@ registry

\* lines 177-210: the returned type and the registry afterwards
get_method_response_type(registry, serializer, view_inspector, method_inspector) ==
    IF method_inspector.response_type # None
    THEN LET response_type_name == ResponseTypeName(view_inspector, method_inspector)
         IN [type |-> Some(response_type_name),
             registry |-> RegisterResponseType(registry, response_type_name,
                                               method_inspector.response_type[1])]
    ELSE [type |-> get_serializer_name(serializer), registry |-> registry]

(***************************************************************************)
(* get_operations and generate                                             *)
(***************************************************************************)
\* lines 73-93: the operation of one method
Operation(method_introspector, response_type) ==
    LET notes == IF method_introspector.yaml_error # None
                 THEN method_introspector.notes
                        \o <<"<pre>YAMLError:\n ", method_introspector.yaml_error[1], "</pre>">>
                 ELSE method_introspector.notes
        operation == [method |-> method_introspector.http_method,
                      summary |-> method_introspector.summary,
                      nickname |-> method_introspector.nickname,
                      notes |-> notes,
                      type |-> response_type]
        parameters == method_introspector.parameters
        response_messages == method_introspector.response_messages
    IN (IF parameters # <<>> THEN [parameters |-> parameters] ELSE <<>>)
         @@ (IF response_messages # <<>>
             THEN [responseMessages |-> response_messages] ELSE <<>>)
         @@ operation

\* the skip test without the isinstance check
Skipped_OnlyOptions(method_introspector) ==
    method_introspector.http_method = "OPTIONS"

\* lines 62-64: the methods the loop skips
Skipped(method_introspector) ==
    ~method_introspector.base \/ method_introspector.http_method = "OPTIONS"

\* lines 61-95: the loop over the methods of one introspector; st carries the
\* operations so far, the registry and the history of registrations
RECURSIVE OperationsLoop(_, _, _, _)
OperationsLoop(methods, i, introspector, st) ==
    IF i > Len(methods) THEN st
    ELSE IF Skipped(methods[i]) THEN OperationsLoop(methods, i + 1, introspector, st)
    ELSE LET serializer == get_method_serializer(methods[i])
             r == get_method_response_type(st.registry, serializer, introspector, methods[i])
             id == [callback |-> methods[i].callback, method |-> methods[i].method]
             typed == methods[i].response_type # None
         IN OperationsLoop(methods, i + 1, introspector,
                [operations |-> Append(st.operations, Operation(methods[i], r.type)),
                 registry |-> r.registry,
                 self |-> st.self,
                 processed |-> IF typed THEN st.processed \cup {id} ELSE st.processed,
                 registered_by |-> IF typed
                                   THEN (r.type[1] :> [method |-> id, self |-> st.self])
                                          @@ st.registered_by
                                   ELSE st.registered_by])

\* lines 51-97
get_operations(api, apis, st) ==
    LET the_apis == IF apis = None THEN <<api>> ELSE apis[1]
        introspector == get_introspector(api, the_apis)
    IN OperationsLoop(MethodIntrospectors[introspector.callback], 1, introspector,
                      [st EXCEPT !.operations = <<>>])

\* IntrospectorHelper.get_view_description(callback)
get_view_description(cb) == <<"description of", cb>>

\* lines 27-35: the loop of generate; docs are the entries so far
RECURSIVE GenerateLoop(_, _, _, _)
GenerateLoop(apis, i, docs, st) ==
    IF i > Len(apis) THEN [api_docs |-> docs, st |-> st]
    ELSE LET r == get_operations(apis[i], Some(apis), st)
         IN GenerateLoop(apis, i + 1,
                Append(docs, [description |-> get_view_description(apis[i].callback),
                              path |-> apis[i].path,
                              operations |-> r.operations]),
                r)

\* lines 23-35
generate(apis, st) == GenerateLoop(apis, 1, <<>>, st)

(***************************************************************************)
(* Serializer objects.  A class has the empty id; each get_fields() call   *)
(* makes new field instances, named here by the place of the call.         *)
(***************************************************************************)
ClassObj(c) == [cls |-> c, id |-> <<>>, list |-> FALSE]

\* the instance of a nested field that get_fields() returned at path
FieldObj(field, path) ==
    [cls |-> field.target, id |-> path, list |-> IsListSerializer(field)]

\* line 232-237: get_thing(field, lambda f: f)
get_thing(field, path) ==
    IF IsListSerializer(field)
    THEN [cls |-> field.target, id |-> path \o <<"child">>, list |-> FALSE]
    ELSE FieldObj(field, path)

\* the guard of the descent, inverted
NotFound_Inverted(obj, found_serializers) == obj \in found_serializers

\* line 245: the guard of the descent
NotFound(obj, found_serializers) == obj \notin found_serializers

\* lines 212-226
get_serializer_set(apis) ==
    { ClassObj(get_method_serializer(m)[1]) :
        m \in { mi \in UNION { { MethodIntrospectors[get_introspector(apis[i], apis).callback][k] :
                                   k \in 1..Len(MethodIntrospectors[apis[i].callback]) } :
                               i \in 1..Len(apis) } :
                get_method_serializer(mi) # None } }

\* lines 239-251: the walk over serializers[si..] and the fields [fi..] of
\* serializers[si], serializers_set being the set built so far; depth is
\* the number of _find_field_serializers frames on the stack
RECURSIVE FindWalk(_, _, _, _, _, _, _)
FindWalk(serializers, si, fi, serializers_set, found_serializers, path, depth) ==
    IF si > Len(serializers) THEN [raised |-> FALSE, value |-> serializers_set]
    ELSE
    LET fields == get_fields(serializers[si].cls)
    IN IF fi > Len(fields)
       THEN FindWalk(serializers, si + 1, 1, serializers_set, found_serializers, path, depth)
       ELSE
       LET field == fields[fi]
           here == path \o <<serializers[si].cls, field.name>>
       IN IF ~IsBaseSerializer(field)
          THEN FindWalk(serializers, si, fi + 1, serializers_set, found_serializers, path, depth)
          ELSE
          LET added == serializers_set \cup {get_thing(field, here)}
          IN IF NotFound(FieldObj(field, here), found_serializers)
             THEN IF depth + 1 > RecursionLimit
                  THEN [raised |-> TRUE, value |-> {}]
                  ELSE LET r == FindWalk(<<ClassObj(field.target)>>, 1, 1, {}, added,
                                         here, depth + 1)
                       IN IF r.raised THEN r
                          ELSE FindWalk(serializers, si, fi + 1, added \cup r.value,
                                        found_serializers, path, depth)
             ELSE FindWalk(serializers, si, fi + 1, added, found_serializers, path, depth)

\* the order in which a set of serializers is iterated
IterationOrder(serializers) ==
    LET present == SelectSeq(hash_order, LAMBDA c : ClassObj(c) \in serializers)
    IN [i \in 1..Len(present) |-> ClassObj(present[i])]

\* lines 228-251, called with the default found_serializers
find_field_serializers(serializers) ==
    FindWalk(IterationOrder(serializers), 1, 1, {}, {}, <<>>, 1)

(***************************************************************************)
(* get_models                                                              *)
(***************************************************************************)
\* the entries of an OrderedDict whose key is not in names
RECURSIVE Without(_, _)
Without(items, names) ==
    IF items = <<>> THEN <<>>
    ELSE (IF \E i \in 1..Len(names) : names[i] = Head(items)[1]
          THEN <<>> ELSE <<Head(items)>>) \o Without(Tail(items), names)

\* the keys of an OrderedDict
Keys(items) == [i \in 1..Len(items) |-> items[i][1]]

\* lines 123: the name of the model for writing
WriteName(serializer_name) == <<"Write">> \o serializer_name

\* WriteModel with 'required' taken unfiltered from the serializer
WriteModel_AllRequired(serializer_name, data) ==
    [id |-> WriteName(serializer_name),
     required |-> data.required,
     properties |-> Without(data.fields, data.read_only)]

\* lines 125-132: the model for writing
WriteModel(serializer_name, data) ==
    LET w_name == WriteName(serializer_name)
        w_properties == Without(data.fields, data.read_only)
    IN [id |-> w_name,
        required |-> SelectSeq(data.required,
                               LAMBDA n : \E i \in 1..Len(w_properties) : w_properties[i][1] = n),
        properties |-> w_properties]

\* ReadModel with the fields filtered by read_only instead of write_only
ReadModel_FiltersReadOnly(serializer_name, data) ==
    LET r_properties == Without(data.fields, data.read_only)
    IN [id |-> serializer_name,
        required |-> Keys(r_properties),
        properties |-> r_properties]

\* lines 136-145: the model for reading
ReadModel(serializer_name, data) ==
    LET r_name == serializer_name
        r_properties == Without(data.fields, data.write_only)
    IN [id |-> r_name,
        required |-> Keys(r_properties),
        properties |-> r_properties]

\* lines 112-145: the loop over the serializers, in iteration order
RECURSIVE ModelsLoop(_, _, _)
ModelsLoop(order, i, the_models) ==
    IF i > Len(order) THEN the_models
    ELSE LET data == get_serializer_fields(order[i])
             serializer_name == get_serializer_name(Some(order[i]))[1]
             w == WriteModel(serializer_name, data)
             r == ReadModel(serializer_name, data)
         IN ModelsLoop(order, i + 1, (r.id :> r) @@ (w.id :> w) @@ the_models)

\* an update that keeps the entries already there
Update_KeepsExisting(the_models, other) == the_models @@ other

\* line 154: models.update(a dict)
Update(the_models, other) == other @@ the_models

\* line 155: models.update(an iterable of key/value pairs)
UpdatePairs(the_models, pairs) ==
    [k \in DOMAIN the_models \cup { p[1] : p \in pairs } |->
        IF \E p \in pairs : p[1] = k
        THEN (CHOOSE p \in pairs : p[1] = k)[2] ELSE the_models[k]]

\* lines 99-156: the models, or the exception of the walk
get_models(apis) ==
    LET roots == get_serializer_set(apis) \cup explicit_serializers
        found == find_field_serializers(roots)
        serializers == roots \cup found.value
        order == SelectSeq(hash_order, LAMBDA c : \E s \in serializers : s.cls = c)
    IN IF found.raised THEN [raised |-> TRUE, value |-> <<>>]
       ELSE [raised |-> FALSE,
             value |-> UpdatePairs(Update(ModelsLoop(order, 1, <<>>),
                                          explicit_response_types),
                                   fields_serializers)]

HashOrders ==
    { <<"Order", "Item", "Tag", "WriteItem", "UserGetResponse">>,
      <<"UserGetResponse", "WriteItem", "Tag", "Item", "Order">> }

Instances == {"g1", "g2"}

(***************************************************************************)
(* The state machine.                                                      *)
(***************************************************************************)
InitWith(item_choices, tag_choices, orders, explicit_choices) ==
    /\ item_nested \in item_choices
    /\ tag_nested \in tag_choices
    /\ hash_order \in orders
    /\ explicit_serializers \in explicit_choices
    /\ fields_serializers = {}
    /\ explicit_response_types = <<>>
    /\ last_call = [op |-> "none", self |-> "g1", apis |-> <<>>]
    /\ operations = <<>>
    /\ api_docs = <<>>
    /\ models = <<>>
    /\ raised = None
    /\ processed = {}
    /\ registered_by = <<>>

Unchanged_world ==
    UNCHANGED <<item_nested, tag_nested, hash_order, explicit_serializers, fields_serializers>>

\* the registry and its history, as get_operations threads them
RegistryState(self) ==
    [operations |-> <<>>, registry |-> explicit_response_types, self |-> self,
     processed |-> processed, registered_by |-> registered_by]

\* self.get_operations(api)
GetOperations(self, api) ==
    LET r == get_operations(api, None, RegistryState(self))
    IN /\ last_call' = [op |-> "get_operations", self |-> self, apis |-> <<api>>]
       /\ operations' = r.operations
       /\ explicit_response_types' = r.registry
       /\ processed' = r.processed
       /\ registered_by' = r.registered_by
       /\ api_docs' = <<>>
       /\ models' = <<>>
       /\ raised' = None
       /\ Unchanged_world

\* self.generate(apis)
Generate(self, apis) ==
    LET r == generate(apis, RegistryState(self))
    IN /\ last_call' = [op |-> "generate", self |-> self, apis |-> apis]
       /\ api_docs' = r.api_docs
       /\ explicit_response_types' = r.st.registry
       /\ processed' = r.st.processed
       /\ registered_by' = r.st.registered_by
       /\ operations' = <<>>
       /\ models' = <<>>
       /\ raised' = None
       /\ Unchanged_world

\* self.get_models(apis)
GetModels(self, apis) ==
    LET r == get_models(apis)
    IN /\ last_call' = [op |-> "get_models", self |-> self, apis |-> apis]
       /\ models' = r.value
       /\ raised' = IF r.raised THEN Some("RecursionError") ELSE None
       /\ operations' = <<>>
       /\ api_docs' = <<>>
       /\ UNCHANGED <<explicit_response_types, processed, registered_by>>
       /\ Unchanged_world

\* Two generators working on an application whose Item serializer is flat
\* or nests itself.
Init ==
    InitWith({None, Some(NestedField("child", "Item", FALSE, FALSE, FALSE, FALSE))},
             {None}, {<<"Order", "Item", "Tag", "WriteItem", "UserGetResponse">>}, {{}})

Next ==
    \/ \E self \in Instances, api \in AllApis : GetOperations(self, api)
    \/ \E self \in Instances, apis \in ApiLists : Generate(self, apis)
    \/ \E self \in Instances, apis \in ApiLists : GetModels(self, apis)

Spec == Init /\ [][Next]_vars

\* One generator working on every application of the bounded family.
InitModels ==
    InitWith(ItemNestedChoices, TagNestedChoices, HashOrders, { {}, {ClassObj("Tag")} })

NextModels ==
    \/ \E api \in AllApis : GetOperations("g1", api)
    \/ \E apis \in FilteredApiLists : GetModels("g1", apis)

SpecModels == InitModels /\ [][NextModels]_vars

(***************************************************************************)
(* What the properties are stated in: the inputs of a call, read from the  *)
(* declarations of the application, and the expected outputs.              *)
(***************************************************************************)
Returned(op) == last_call.op = op /\ raised = None

\* the methods an operation is expected for
Emitting(api) ==
    SelectSeq(MethodIntrospectors[api.callback],
              LAMBDA m : m.base /\ m.http_method # "OPTIONS")

\* the serializer classes the methods of the apis answer with
RootClasses(apis) ==
    { m.serializer[1] :
        m \in { x \in UNION { { MethodIntrospectors[apis[i].callback][k] :
                                  k \in 1..Len(MethodIntrospectors[apis[i].callback]) } :
                              i \in 1..Len(apis) } :
                x.response_type = None /\ ~x.omit_serializer /\ x.serializer # None } }
      \cup { o.cls : o \in explicit_serializers }

NestedTargets(c) ==
    { get_fields(c)[i].target :
        i \in { j \in 1..Len(get_fields(c)) : get_fields(c)[j].kind # "field" } }

RECURSIVE Reachable(_)
Reachable(S) ==
    LET T == S \cup UNION { NestedTargets(c) : c \in S }
    IN IF T = S THEN S ELSE Reachable(T)

\* the serializers of the last get_models call
ProcessedClasses == Reachable(RootClasses(last_call.apis))

Variants == {"write", "read"}

KeyOf(c, v) == IF v = "write" THEN <<"Write">> \o ClassName(c) ELSE ClassName(c)

ExpectedFields(c, v) ==
    SelectSeq(get_fields(c),
              LAMBDA f : IF v = "write" THEN ~f.read_only ELSE ~f.write_only)

ExpectedRequired(c, v) ==
    LET fs == SelectSeq(ExpectedFields(c, v),
                        LAMBDA f : IF v = "write" THEN f.required ELSE TRUE)
    IN [i \in 1..Len(fs) |-> fs[i].name]

\* m has exactly the expected fields of c, in order
IsModelOf(m, c, v) ==
    LET fs == ExpectedFields(c, v)
    IN /\ "required" \in DOMAIN m
       /\ Len(m.properties) = Len(fs)
       /\ \A i \in 1..Len(fs) :
            /\ m.properties[i][1] = fs[i].name
            /\ m.properties[i][2].required = fs[i].required
            /\ m.properties[i][2].readOnly = fs[i].read_only

\* another processed serializer or a docstring type produces the same key
Contested(c, v) ==
    \/ KeyOf(c, v) \in DOMAIN explicit_response_types
    \/ \E c2 \in ProcessedClasses \ {c}, v2 \in Variants : KeyOf(c2, v2) = KeyOf(c, v)

HasProperty(m, name) == \E i \in 1..Len(m.properties) : m.properties[i][1] = name

\* the key expected for the docstring type of a method
ExpectedResponseKey(id) ==
    CASE id.callback = "OrderViewSet" /\ id.method = <<"list">> ->
           <<"Order", "List", "Response">>
      [] id.callback = "UserAPIView" /\ id.method = <<"GET">> ->
           <<"User", "Get", "Response">>
      [] id.callback = "UserView" /\ id.method = <<"GET">> ->
           <<"User", "Get", "Response">>

\* the type the docstring of a method defines
DocType(id) ==
    LET ms == MethodIntrospectors[id.callback]
    IN ms[CHOOSE i \in 1..Len(ms) : ms[i].method = id.method /\ ms[i].base].response_type[1]

ExpectedType(m) ==
    IF m.response_type # None
    THEN Some(ExpectedResponseKey([callback |-> m.callback, method |-> m.method]))
    ELSE IF m.omit_serializer \/ m.serializer = None THEN None
    ELSE Some(ClassName(m.serializer[1]))

(***************************************************************************)
(* Claims about the models of serializers (checked under SpecModels).      *)
(***************************************************************************)
\* C1 as stated: for every serializer S that get_models processed, the
\* result holds 'Write<Name(S)>' with exactly the fields of S that are not
\* read_only and '<Name(S)>' with exactly the fields that are not
\* write_only, in field order, each model's id being its key.
C1_AsStated ==
    Returned("get_models") =>
        \A c \in ProcessedClasses, v \in Variants :
            /\ KeyOf(c, v) \in DOMAIN models
            /\ models[KeyOf(c, v)].id = KeyOf(c, v)
            /\ IsModelOf(models[KeyOf(c, v)], c, v)

\* C1, amended: both keys are in the result and each model's id is its key;
\* the properties under a key are exactly the expected fields of S, in
\* order, unless a docstring response type or another processed serializer
\* produces a model with the same key.
C1_ReadWriteSplit ==
    Returned("get_models") =>
        \A c \in ProcessedClasses, v \in Variants :
            /\ KeyOf(c, v) \in DOMAIN models
            /\ models[KeyOf(c, v)].id = KeyOf(c, v)
            /\ IsModelOf(models[KeyOf(c, v)], c, v) \/ Contested(c, v)

\* Item was processed with no contested key: sku is in both models, the
\* write_only secret only in the Write model, the read_only created only in
\* the read model.
C1_Witness ==
    /\ Returned("get_models")
    /\ "Item" \in ProcessedClasses
    /\ ~Contested("Item", "write") /\ ~Contested("Item", "read")
    /\ HasProperty(models[<<"Write", "Item">>], "sku")
    /\ HasProperty(models[<<"Item">>], "sku")
    /\ HasProperty(models[<<"Write", "Item">>], "secret")
    /\ ~HasProperty(models[<<"Item">>], "secret")
    /\ HasProperty(models[<<"Item">>], "created")
    /\ ~HasProperty(models[<<"Write", "Item">>], "created")

\* C2: a get_models call produces a read model and a Write model for every
\* serializer reachable from a root through nested fields, list-wrapped
\* ones followed through their child.
C2_AllReachableModelled ==
    last_call.op = "get_models" =>
        \A c \in ProcessedClasses, v \in Variants : KeyOf(c, v) \in DOMAIN models

\* C6: every model built from a serializer is the Write or the read model of
\* a processed serializer; the names in its 'required' are keys of its
\* 'properties'; a Write model requires exactly the required fields that are
\* not read_only, a read model requires all its properties.
C6_RequiredWithinProperties ==
    Returned("get_models") =>
        \A k \in DOMAIN models \ DOMAIN explicit_response_types :
            /\ \A i \in 1..Len(models[k].required) :
                   HasProperty(models[k], models[k].required[i])
            /\ \E c \in ProcessedClasses, v \in Variants :
                   /\ k = KeyOf(c, v)
                   /\ IsModelOf(models[k], c, v)
                   /\ models[k].required = ExpectedRequired(c, v)

\* The Write model of Item does not require the required read_only field
\* created; the read model requires qty, which is not marked required.
C6_Witness ==
    /\ Returned("get_models")
    /\ "Item" \in ProcessedClasses
    /\ ~Contested("Item", "write") /\ ~Contested("Item", "read")
    /\ \A i \in 1..Len(models[<<"Write", "Item">>].required) :
           models[<<"Write", "Item">>].required[i] # "created"
    /\ \E i \in 1..Len(models[<<"Item">>].required) :
           models[<<"Item">>].required[i] = "created"
    /\ \E i \in 1..Len(models[<<"Item">>].required) :
           models[<<"Item">>].required[i] = "qty"

\* the model a nested field is expected to name
ExpectedRef(f) ==
    IF f.write_only THEN <<"Write">> \o ClassName(f.target) ELSE ClassName(f.target)

\* C7: in the result, every property of a nested serializer field names a
\* model of the same result: a single nested field by its 'type', a
\* list-wrapped one by 'items' {'$ref': name} under 'type' 'array', the name
\* carrying the prefix 'Write' exactly when the field is write_only.
C7_ReferentialIntegrity ==
    Returned("get_models") =>
        \A c \in ProcessedClasses, v \in Variants :
            (/\ KeyOf(c, v) \in DOMAIN models \ DOMAIN explicit_response_types
             /\ IsModelOf(models[KeyOf(c, v)], c, v))
            => \A i \in 1..Len(ExpectedFields(c, v)) :
                 LET f == ExpectedFields(c, v)[i]
                     schema == models[KeyOf(c, v)].properties[i][2]
                 IN f.kind # "field" =>
                      /\ ExpectedRef(f) \in DOMAIN models
                      /\ f.kind = "serializer" => schema.type = ExpectedRef(f)
                      /\ f.kind = "list" =>
                           /\ schema.type = <<"array">>
                           /\ "items" \in DOMAIN schema
                           /\ schema.items = [ref |-> ExpectedRef(f)]

\* Order lists Item, Item nests Tag in a single write_only field, and Tag is
\* reached only through Item.
C7_Witness ==
    /\ Returned("get_models")
    /\ "Order" \in RootClasses(last_call.apis)
    /\ "Tag" \notin RootClasses(last_call.apis)
    /\ item_nested # None
    /\ item_nested[1].target = "Tag" /\ item_nested[1].kind = "serializer"
    /\ item_nested[1].write_only
    /\ <<"Write", "Tag">> \in DOMAIN models
    /\ IsModelOf(models[<<"Write", "Item">>], "Item", "write")
    /\ IsModelOf(models[<<"Order">>], "Order", "read")

\* C8: the walk over nested serializers ends on every finite serializer
\* graph, cyclic ones included: no get_models call ends in RecursionError.
C8_WalkTerminates ==
    last_call.op = "get_models" => raised = None

\* a processed serializer reaches itself through nested fields
CyclicGraph == \E c \in ProcessedClasses : c \in Reachable(NestedTargets(c))

\* Supporting C2 and C8: the walk fails exactly on the cyclic graphs, and on
\* the others every reachable serializer has both models.
WalkFailsExactlyOnCycles ==
    last_call.op = "get_models" =>
        /\ raised # None <=> CyclicGraph
        /\ ~CyclicGraph =>
             \A c \in ProcessedClasses, v \in Variants : KeyOf(c, v) \in DOMAIN models

\* C9: an integer field's schema has 'minimum' exactly when the field
\* defines a minimum, 'maximum' exactly when it defines a maximum, each with
\* its value; no other field has either key.
C9_MinMaxIndependent ==
    Returned("get_models") =>
        \A c \in ProcessedClasses, v \in Variants :
            (/\ KeyOf(c, v) \in DOMAIN models \ DOMAIN explicit_response_types
             /\ IsModelOf(models[KeyOf(c, v)], c, v))
            => \A i \in 1..Len(ExpectedFields(c, v)) :
                 LET f == ExpectedFields(c, v)[i]
                     schema == models[KeyOf(c, v)].properties[i][2]
                 IN /\ "minimum" \in DOMAIN schema
                         <=> (f.data_type = "integer" /\ f.min_val # None)
                    /\ "maximum" \in DOMAIN schema
                         <=> (f.data_type = "integer" /\ f.max_val # None)
                    /\ "minimum" \in DOMAIN schema => schema.minimum = f.min_val
                    /\ "maximum" \in DOMAIN schema => schema.maximum = f.max_val

(***************************************************************************)
(* Claims about operations and the registry of docstring response types    *)
(* (checked under Spec).                                                   *)
(***************************************************************************)
\* C3 as stated: once get_operations has processed a method whose
\* docstring defines a response type, every later get_models result holds a
\* model under '<view><Method>Response' whose id is that key and whose
\* properties are that docstring's type.
C3_AsStated ==
    Returned("get_models") =>
        \A id \in processed :
            /\ ExpectedResponseKey(id) \in DOMAIN models
            /\ models[ExpectedResponseKey(id)].id = ExpectedResponseKey(id)
            /\ models[ExpectedResponseKey(id)].properties = DocType(id)

\* C3, amended: the model under that key is {id, properties} with the type
\* of the docstring that was processed last among the methods that produce
\* this key; it stands in the result also when a serializer model has the
\* same key.
C3_DocstringModelWins ==
    Returned("get_models") =>
        \A id \in processed :
            /\ ExpectedResponseKey(id) \in DOMAIN models
            /\ ExpectedResponseKey(id) \in DOMAIN registered_by
            /\ models[ExpectedResponseKey(id)]
                 = [id |-> ExpectedResponseKey(id),
                    properties |-> DocType(registered_by[ExpectedResponseKey(id)].method)]

\* a docstring type is registered under the name of a serializer that the
\* same get_models call processed
C3_Witness ==
    /\ Returned("get_models")
    /\ "UserGetResponse" \in ProcessedClasses
    /\ \E id \in processed : ExpectedResponseKey(id) = ClassName("UserGetResponse")
    /\ ClassName("UserGetResponse") \in DOMAIN models

\* the operations expected of an endpoint, by their type
TypesMatch(ops, api) ==
    /\ Len(ops) = Len(Emitting(api))
    /\ \A i \in 1..Len(ops) : ops[i].type = ExpectedType(Emitting(api)[i])

\* C4: an operation's 'type' is the generated response name when the
\* docstring defines a type, else the serializer's name unless the docstring
\* omits the serializer, else None; only the methods of the second case
\* contribute a root serializer to get_models.
C4_OperationType ==
    /\ Returned("get_operations") => TypesMatch(operations, last_call.apis[1])
    /\ Returned("generate") =>
         \A i \in 1..Len(api_docs) : TypesMatch(api_docs[i].operations, last_call.apis[i])
    /\ Returned("get_models") =>
         DOMAIN models \ DOMAIN explicit_response_types
           \subseteq { KeyOf(c, v) : c \in ProcessedClasses, v \in Variants }

\* get_operations on the view set: a docstring type, an omitted serializer
\* and a serializer name, in this order
C4_Witness ==
    /\ Returned("get_operations")
    /\ last_call.apis[1].callback = "OrderViewSet"
    /\ Len(operations) = 3
    /\ operations[1].type = Some(<<"Order", "List", "Response">>)
    /\ operations[2].type = None
    /\ operations[3].type = Some(<<"Order">>)

\* the operations expected of an endpoint, by their shape
ShapeMatches(ops, api) ==
    /\ Len(ops) = Len(Emitting(api))
    /\ \A i \in 1..Len(ops) :
         LET m == Emitting(api)[i]
         IN /\ ops[i].method = m.http_method
            /\ ops[i].method # "OPTIONS"
            /\ "parameters" \in DOMAIN ops[i]
                 => m.parameters # <<>> /\ ops[i].parameters = m.parameters
            /\ "responseMessages" \in DOMAIN ops[i]
                 => m.response_messages # <<>>
                    /\ ops[i].responseMessages = m.response_messages

\* C5: get_operations returns one operation, in order, for each method that
\* is a BaseMethodIntrospector and not OPTIONS; 'parameters' and
\* 'responseMessages' are present only when non-empty; generate returns one
\* entry per api, in input order, with that api's path.
C5_OperationsShape ==
    /\ Returned("get_operations") => ShapeMatches(operations, last_call.apis[1])
    /\ Returned("generate") =>
         /\ Len(api_docs) = Len(last_call.apis)
         /\ \A i \in 1..Len(api_docs) :
              /\ api_docs[i].path = last_call.apis[i].path
              /\ ShapeMatches(api_docs[i].operations, last_call.apis[i])

\* generate over two endpoints, one with a method that is no
\* BaseMethodIntrospector, the other with an OPTIONS method
C5_Witness ==
    /\ Returned("generate")
    /\ Len(last_call.apis) = 2
    /\ last_call.apis[1].callback = "UserView"
    /\ last_call.apis[2].callback = "OrderViewSet"
    /\ Len(api_docs[1].operations) = 3
    /\ Len(api_docs[2].operations) = 3
    /\ "parameters" \in DOMAIN api_docs[2].operations[1]
    /\ "responseMessages" \notin DOMAIN api_docs[2].operations[1]
    /\ "parameters" \notin DOMAIN api_docs[2].operations[2]

\* every key ever registered is in the registry with the type registered last
RegistryKeepsAll ==
    \A k \in DOMAIN registered_by :
        /\ k \in DOMAIN explicit_response_types
        /\ explicit_response_types[k]
             = [id |-> k, properties |-> DocType(registered_by[k].method)]

\* a get_models result holds every registered model
ModelsHoldRegistry ==
    Returned("get_models") =>
        \A k \in DOMAIN registered_by :
            k \in DOMAIN models /\ models[k] = explicit_response_types[k]

\* C10: the registry is one for all generators and only grows; every
\* get_models result holds every model registered before, whoever registered
\* it and whatever apis are passed; a key registered again holds the later
\* type.
C10_RegistryOnlyGrows ==
    /\ [](RegistryKeepsAll /\ ModelsHoldRegistry)
    /\ [][DOMAIN explicit_response_types \subseteq DOMAIN explicit_response_types']_vars

\* generator g2 gets, for apis without the view, a model that g1 registered
C10_Witness ==
    /\ Returned("get_models")
    /\ last_call.self = "g2"
    /\ \E k \in DOMAIN registered_by :
         /\ registered_by[k].self = "g1"
         /\ \A i \in 1..Len(last_call.apis) :
              last_call.apis[i].callback # registered_by[k].method.callback
         /\ k \in DOMAIN models

====
